---- MODULE Spec2Model ----
(***************************************************************************)
(* Model of remote.go: the RemoteKite call dispatcher (GoWithTimeout /     *)
(* send / makeResponseCallback / sendCallbackID), the connect and          *)
(* disconnect handlers installed by NewRemoteKite, and the token renewal   *)
(* loop (tokenRenewer / renewTokenUntilDisconnect / renewToken).           *)
(*                                                                         *)
(* Goroutines are processes with an explicit position; a step ends where   *)
(* the goroutine can block (channel receive, channel send, select) or      *)
(* where it is first scheduled.  Channels are sequences bounded by their   *)
(* capacity.  The disconnect channel objects are numbered 0, 1, 2, ... in  *)
(* the order NewRemoteKite and the disconnect handler make them.           *)
(*                                                                         *)
(* The read of r.disconnect in a select is not protected by the handler's  *)
(* mutex: it returns the channel stored before or after the handler's      *)
(* assignment, which is what the interleaving of the reading step with     *)
(* DisconnectReplace produces.                                             *)
(*                                                                         *)
(* The clock counts seconds.  Call timeouts are armed by the waiting task  *)
(* and elapse as an event of their own (TimeoutElapse); the renewal loop   *)
(* compares the clock with the credential's expiry.                        *)
(***************************************************************************)
EXTENDS Integers, Sequences, FiniteSets, TLC

\* ------------------------------------------------------------------ bounds
MaxCalls       == 2    \* calls dispatched on the RemoteKite
MaxMinted      == 2    \* continuation identifiers minted by one client.Call
MaxInvocations == 2    \* times the peer invokes one response continuation
MaxDisconnects == 2    \* disconnect events
MaxRenewers    == 2    \* token renewal loops started
MaxErrors      == 2    \* errors passed to onError
MaxArgs        == 2    \* arguments of an inbound invocation
MaxCallbacks   == 2    \* continuations an inbound invocation may name
MaxSets        == 2    \* calls of SetTellTimeout
MaxTime        == 40   \* last clock instant, in seconds
TickStep       == 10   \* seconds between two readings of the clock

\* --------------------------------------------------------------- constants
DefaultTellTimeout == 4     \* seconds
RenewBefore        == 30    \* seconds before expiry at which the loop wakes
retryInterval      == 10    \* seconds between renewal retries

Calls      == 1..MaxCalls
NoExpiry   == -1            \* Authentication.validUntil == nil
Timeouts   == {0, 1}        \* timeout arguments given to GoWithTimeout
TellTimeouts == {2, 4}      \* durations given to SetTellTimeout
Minted     == {0, 8}        \* identifiers a client has minted before a call
Lifetimes  == {40}          \* seconds from issue to expiry of a renewed token
Expiries   == {20, 40}      \* expiry instants of the credential given to NewRemoteKite
Nil        == "nil"         \* a nil error
NoResult   == <<>>          \* a nil *dnode.Partial

\* Reply payloads the peer may pass to a response continuation: the number
\* of arguments, whether the single argument unmarshals, and its keys.
Payloads ==
  { [nargs |-> 1, json |-> TRUE,  keys |-> {"result"}],
    [nargs |-> 1, json |-> TRUE,  keys |-> {"error"}],
    [nargs |-> 1, json |-> TRUE,  keys |-> {}] }

\* Replies that are not exactly one decodable argument with a result or an
\* error key.
InvalidPayloads ==
  { [nargs |-> 0, json |-> FALSE, keys |-> {}],
    [nargs |-> 2, json |-> TRUE,  keys |-> {"result"}],
    [nargs |-> 1, json |-> FALSE, keys |-> {}],
    [nargs |-> 1, json |-> TRUE,  keys |-> {}] }

\* An inbound argument as onError sees it: whether it unmarshals into
\* callOptions, and the response continuation it then carries.
NoCallback == 0
InboundArgs ==
  {[decodes |-> FALSE, responseCallback |-> NoCallback]} \cup
  [decodes : {TRUE}, responseCallback : 0..MaxCallbacks]

\* Sequences of at most MaxArgs inbound arguments.
ArgLists == UNION {[1..n -> InboundArgs] : n \in 0..MaxArgs}

\* Errors the transport reports: dnode.MethodNotFoundError or another type.
InboundErrors == [type : {"MethodNotFoundError", "ArgumentError"}, args : ArgLists]
NoError == [type |-> "none", args |-> <<>>]

VARIABLES
  connected,       \* the transport session is up
  dpc,             \* disconnect handler: "idle", or "closed" between close and replace
  disconnect,      \* r.disconnect: number of the current disconnect channel
  tellTimeout,     \* r.tellTimeout
  seq,             \* last continuation identifier minted by the transport
  registry,        \* identifiers present in the transport's callback registry
  spc,             \* per call: position of send
  minted,          \* per call: identifiers returned by client.Call
  armed,           \* per call: timeout armed by the waiting task
  elapsed,         \* per call: the armed timeout has elapsed
  wpc,             \* per call: position of the waiting goroutine
  wch,             \* per call: disconnect channel the select waits on
  doneChan,        \* per call: doneChan, capacity 1
  removeCallback,  \* per call: removeCallback, capacity 1, may be closed
  responseChan,    \* per call: responseChan, capacity 1
  result,          \* per call: responses the caller received from responseChan
  cbs,             \* per call: invocations of its response continuation
  since,           \* per call (history): "fresh" when dispatched with no
                   \* disconnect handler running, "busy" when dispatched
                   \* between close and replace, "hit" once a disconnect
                   \* handler has started after the dispatch
  auth,            \* r.Authentication: [Type, Key, validUntil]
  now,             \* clock
  renewers,        \* token renewal loops, in the order they were started
  inbound,         \* error the transport is passing to onError, or NoError
  handled,         \* number of errors onError has returned from
  invoked,         \* invocations of continuations made by onError, in order
  setTo,           \* (history) values given to SetTellTimeout, in order
  timeoutArg,      \* per call (history): timeout argument of GoWithTimeout
  envelope,        \* per call: credential in the envelope sent, if one was built
  client,          \* r.client: the client the RemoteKite dials and calls on
  handlersOn       \* the client the connect and disconnect handlers are on

callVars  == <<seq, registry, spc, minted, armed, elapsed, wpc, wch, doneChan,
               removeCallback, responseChan, result, cbs, since>>
connVars  == <<connected, dpc, disconnect, client, handlersOn>>
renewVars == <<auth, now, renewers>>
errVars   == <<inbound, handled, invoked>>
vars      == <<connVars, tellTimeout, envelope, setTo, timeoutArg, errVars,
               callVars, renewVars>>

\* ---------------------------------------------------------------- helpers
Max(S) == CHOOSE x \in S : \A y \in S : y <= x

\* response{Result, Err}; Err is the Error's Type.
Response(res, err) == [Result |-> res, Err |-> err]

\* A disconnect channel is closed once the handler has executed close on it.
Closed(ch) == ch < disconnect \/ (ch = disconnect /\ dpc = "closed")

\* Number of disconnect events begun so far.
Closes == disconnect + (IF dpc = "closed" THEN 1 ELSE 0)

\* Everything ever sent on a call's response channel, oldest first.
Delivered(c) == result[c] \o responseChan[c]

\* A buffered channel of capacity 1 accepts a send when it is empty.
CanSend(ch) == Len(ch) < 1

\* `v, ok := <-ch` on removeCallback proceeds when a value is buffered or
\* the channel is closed.
CanRecv(rc) == rc.buf # <<>> \/ rc.closed

\* ------------------------------------------------------------------- Init
\* NewRemoteKite: r.client is the client it makes, and r.OnConnect and
\* r.OnDisconnect register their handlers on r.client.
NewRemoteKite == [client |-> "made", handlersOn |-> "made"]

\* newRemoteKiteWithClient: the RemoteKite of NewRemoteKite with r.client
\* replaced by the client given.
newRemoteKiteWithClient == [NewRemoteKite EXCEPT !.client = "given"]

\* The RemoteKite r as a constructor returns it.
Built(r) == client = r.client /\ handlersOn = r.handlersOn

\* Everything but the clients and the identifier counter.
InitRemoteKite ==
  /\ connected = FALSE
  /\ dpc = "idle"
  /\ disconnect = 0
  /\ tellTimeout = DefaultTellTimeout
  /\ registry = {}
  /\ spc = [c \in Calls |-> "idle"]
  /\ minted = [c \in Calls |-> {}]
  /\ armed = [c \in Calls |-> 0]
  /\ elapsed = [c \in Calls |-> FALSE]
  /\ wpc = [c \in Calls |-> "none"]
  /\ wch = [c \in Calls |-> 0]
  /\ doneChan = [c \in Calls |-> <<>>]
  /\ removeCallback = [c \in Calls |-> [buf |-> <<>>, closed |-> FALSE]]
  /\ responseChan = [c \in Calls |-> <<>>]
  /\ result = [c \in Calls |-> <<>>]
  /\ cbs = [c \in Calls |-> <<>>]
  /\ since = [c \in Calls |-> "none"]
  /\ now = 0
  /\ renewers = <<>>
  /\ envelope = [c \in Calls |-> <<>>]
  /\ setTo = <<>>
  /\ timeoutArg = [c \in Calls |-> 0]
  /\ inbound = NoError
  /\ handled = 0
  /\ invoked = <<>>

\* A RemoteKite on a client that has minted no identifier yet.
InitCommon == seq = 0 /\ Built(NewRemoteKite) /\ InitRemoteKite

\* ------------------------------------------------- connect and disconnect
\* tokenRenewer goroutine as started by `go r.tokenRenewer()`.
NewRenewer ==
  [pc |-> "start", ch |-> 0, wake |-> 0, fails |-> 0, epoch |-> disconnect]

\* The session of r.client comes up without any handler of the RemoteKite
\* being registered on that client.
SessionUp ==
  /\ handlersOn # client
  /\ ~connected
  /\ connected' = TRUE
  /\ UNCHANGED <<dpc, disconnect, client, handlersOn, tellTimeout, envelope,
                 setTo, timeoutArg, errVars, callVars, renewVars>>

\* The session of r.client drops without any handler of the RemoteKite
\* being registered on that client.
SessionDown ==
  /\ handlersOn # client
  /\ connected
  /\ connected' = FALSE
  /\ since' = [c \in Calls |-> IF since[c] = "none" THEN "none" ELSE "hit"]
  /\ UNCHANGED <<dpc, disconnect, client, handlersOn, tellTimeout, envelope,
                 setTo, timeoutArg, errVars, seq, registry, spc, minted, armed,
                 elapsed, wpc, wch, doneChan, removeCallback, responseChan,
                 result, cbs, renewVars>>

\* The session of r.client comes up and the OnConnect handler of
\* NewRemoteKite, registered on that client, runs.
Connect ==
  /\ handlersOn = client
  /\ ~connected /\ dpc = "idle"
  /\ auth.validUntil = NoExpiry \/ Len(renewers) < MaxRenewers
  /\ connected' = TRUE
  /\ renewers' = IF auth.validUntil = NoExpiry THEN renewers
                 ELSE Append(renewers, NewRenewer)
  /\ UNCHANGED <<dpc, disconnect, client, handlersOn, tellTimeout, envelope,
                 setTo, timeoutArg, errVars, callVars, auth, now>>

\* The session of r.client drops and the OnDisconnect handler of
\* NewRemoteKite, registered on that client, runs its first half:
\* close(r.disconnect).
DisconnectClose ==
  /\ handlersOn = client
  /\ connected /\ dpc = "idle"
  /\ disconnect < MaxDisconnects
  /\ connected' = FALSE
  /\ dpc' = "closed"
  /\ since' = [c \in Calls |-> IF since[c] = "none" THEN "none" ELSE "hit"]
  /\ UNCHANGED <<disconnect, client, handlersOn, tellTimeout, envelope, setTo,
                 timeoutArg, errVars, seq, registry, spc, minted, armed,
                 elapsed, wpc, wch, doneChan, removeCallback, responseChan,
                 result, cbs, renewVars>>

\* Second half: r.disconnect = make(chan bool).
DisconnectReplace ==
  /\ dpc = "closed"
  /\ disconnect' = disconnect + 1
  /\ dpc' = "idle"
  /\ UNCHANGED <<connected, client, handlersOn, tellTimeout, envelope, setTo,
                 timeoutArg, errVars, callVars, renewVars>>

\* ----------------------------------------------------------- tell timeout
\* SetTellTimeout: r.tellTimeout = d.
SetTellTimeout(d) ==
  /\ Len(setTo) < MaxSets
  /\ tellTimeout' = d
  /\ setTo' = Append(setTo, d)
  /\ UNCHANGED <<connVars, envelope, timeoutArg, errVars, callVars, renewVars>>

\* ------------------------------------------------------------- dispatcher
\* The key under which the transport returns an identifier in the callback
\* map of client.Call: its decimal digits, most significant first.
RECURSIVE FormatUint(_)
FormatUint(i) ==
  IF i < 10 THEN <<i>> ELSE Append(FormatUint(i \div 10), i % 10)

\* strconv.ParseUint(id, 10, 64) of a string of decimal digits.
RECURSIVE ParseUint(_)
ParseUint(id) ==
  IF id = <<>> THEN 0
  ELSE ParseUint(SubSeq(id, 1, Len(id) - 1)) * 10 + id[Len(id)]

\* The order of Go's string comparison on two keys.
RECURSIVE StringLeq(_, _)
StringLeq(a, b) ==
  IF a = <<>> THEN TRUE
  ELSE IF b = <<>> THEN FALSE
  ELSE IF Head(a) # Head(b) THEN Head(a) < Head(b)
  ELSE StringLeq(Tail(a), Tail(b))

\* sendCallbackID taking the greatest key as a string instead of comparing
\* the parsed numbers.
sendCallbackID_stringOrder(callbacks, ch) ==
  IF Cardinality(callbacks) > 0
    THEN [ch EXCEPT !.buf = Append(ch.buf,
            ParseUint(CHOOSE id \in callbacks :
                        \A other \in callbacks : StringLeq(other, id)))]
    ELSE [ch EXCEPT !.closed = TRUE]

\* sendCallbackID: hand off the maximum identifier, or close the queue.
\* max starts at 0.
sendCallbackID(callbacks, ch) ==
  IF Cardinality(callbacks) > 0
    THEN [ch EXCEPT !.buf = Append(ch.buf,
            Max({ParseUint(id) : id \in callbacks} \cup {0}))]
    ELSE [ch EXCEPT !.closed = TRUE]

\* wrapMethodArgs: the envelope's Authentication, a copy of the value
\* r.Authentication holds when client.Call wraps the arguments; validUntil
\* is not part of what is sent.
wrapMethodArgs == <<[Type |-> auth.Type, Key |-> auth.Key]>>

\* sendTimeout with the package default in place of r.tellTimeout.
sendTimeout_packageDefault(timeout) ==
  IF timeout = 0 THEN DefaultTellTimeout ELSE timeout

\* send: `if timeout == 0 { timeout = r.tellTimeout }`.
sendTimeout(timeout) == IF timeout = 0 THEN tellTimeout ELSE timeout

\* GoWithTimeout with the waiting goroutine started before client.Call is
\* made, so that it runs on the error path as well.
GoWithTimeout_waiterFirst(c, timeout, callErr, n) ==
  /\ spc[c] = "idle"
  /\ \A d \in Calls : d < c => spc[d] # "idle"
  /\ since' = [since EXCEPT ![c] = IF dpc = "idle" THEN "fresh" ELSE "busy"]
  /\ timeoutArg' = [timeoutArg EXCEPT ![c] = timeout]
  /\ armed' = [armed EXCEPT ![c] = sendTimeout(timeout)]
  /\ wpc' = [wpc EXCEPT ![c] = "start"]
  /\ IF callErr
       THEN /\ responseChan' = [responseChan EXCEPT
                                  ![c] = Append(@, Response(NoResult, "sendError"))]
            /\ spc' = [spc EXCEPT ![c] = "returned"]
            /\ UNCHANGED <<envelope, seq, registry, minted>>
       ELSE /\ envelope' = [envelope EXCEPT ![c] = wrapMethodArgs]
            /\ seq' = seq + n
            /\ registry' = registry \cup ((seq + 1)..(seq + n))
            /\ minted' = [minted EXCEPT ![c] = (seq + 1)..(seq + n)]
            /\ spc' = [spc EXCEPT ![c] = "sending"]
            /\ UNCHANGED responseChan
  /\ UNCHANGED <<connVars, tellTimeout, setTo, errVars, elapsed, wch, doneChan,
                 removeCallback, result, cbs, renewVars>>

\* GoWithTimeout / send up to and including `go func()`.  callErr is the
\* error result of client.Call, n the number of identifiers it minted.
GoWithTimeout(c, timeout, callErr, n) ==
  /\ spc[c] = "idle"
  /\ \A d \in Calls : d < c => spc[d] # "idle"
  /\ since' = [since EXCEPT ![c] = IF dpc = "idle" THEN "fresh" ELSE "busy"]
  /\ timeoutArg' = [timeoutArg EXCEPT ![c] = timeout]
  /\ IF callErr
       THEN /\ responseChan' = [responseChan EXCEPT
                                  ![c] = Append(@, Response(NoResult, "sendError"))]
            /\ spc' = [spc EXCEPT ![c] = "returned"]
            /\ UNCHANGED <<envelope, seq, registry, minted, armed, wpc>>
       ELSE /\ envelope' = [envelope EXCEPT ![c] = wrapMethodArgs]
            /\ seq' = seq + n
            /\ registry' = registry \cup ((seq + 1)..(seq + n))
            /\ minted' = [minted EXCEPT ![c] = (seq + 1)..(seq + n)]
            /\ armed' = [armed EXCEPT ![c] = sendTimeout(timeout)]
            /\ wpc' = [wpc EXCEPT ![c] = "start"]
            /\ spc' = [spc EXCEPT ![c] = "sending"]
            /\ UNCHANGED responseChan
  /\ UNCHANGED <<connVars, tellTimeout, setTo, errVars, elapsed, wch, doneChan,
                 removeCallback, result, cbs, renewVars>>

\* send, last statement: sendCallbackID(callbacks, removeCallback).
SendCallbackID(c) ==
  /\ spc[c] = "sending"
  /\ CanSend(removeCallback[c].buf)
  /\ removeCallback' = [removeCallback EXCEPT
       ![c] = sendCallbackID({FormatUint(i) : i \in minted[c]}, @)]
  /\ spc' = [spc EXCEPT ![c] = "returned"]
  /\ UNCHANGED <<connVars, tellTimeout, envelope, setTo, timeoutArg, errVars,
                 seq, registry, minted, armed, elapsed, wpc, wch, doneChan,
                 responseChan, result, cbs, since, renewVars>>

\* WaiterEnter with the select waiting on the channel NewRemoteKite made,
\* not on the one r.disconnect holds now.
WaiterEnter_firstChannel(c) ==
  /\ wpc[c] = "start"
  /\ wpc' = [wpc EXCEPT ![c] = "select"]
  /\ wch' = [wch EXCEPT ![c] = 0]
  /\ UNCHANGED <<connVars, tellTimeout, envelope, setTo, timeoutArg, errVars,
                 seq, registry, spc, minted, armed, elapsed, doneChan,
                 removeCallback, responseChan, result, cbs, since, renewVars>>

\* The waiting goroutine reaches its select: r.disconnect is read and the
\* timer is armed.
WaiterEnter(c) ==
  /\ wpc[c] = "start"
  /\ wpc' = [wpc EXCEPT ![c] = "select"]
  /\ wch' = [wch EXCEPT ![c] = disconnect]
  /\ UNCHANGED <<connVars, tellTimeout, envelope, setTo, timeoutArg, errVars,
                 seq, registry, spc, minted, armed, elapsed, doneChan,
                 removeCallback, responseChan, result, cbs, since, renewVars>>

\* time.After(timeout) becomes ready.
TimeoutElapse(c) ==
  /\ wpc[c] = "select"
  /\ ~elapsed[c]
  /\ elapsed' = [elapsed EXCEPT ![c] = TRUE]
  /\ UNCHANGED <<connVars, tellTimeout, envelope, setTo, timeoutArg, errVars,
                 seq, registry, spc, minted, armed, wpc, wch, doneChan,
                 removeCallback, responseChan, result, cbs, since, renewVars>>

\* WaiterReply with the goroutine going round its select again after it has
\* forwarded the reply.
WaiterReply_keepsWaiting(c) ==
  /\ wpc[c] = "select"
  /\ doneChan[c] # <<>>
  /\ CanSend(responseChan[c])
  /\ responseChan' = [responseChan EXCEPT ![c] = Append(@, Head(doneChan[c]))]
  /\ doneChan' = [doneChan EXCEPT ![c] = Tail(@)]
  /\ UNCHANGED <<connVars, tellTimeout, envelope, setTo, timeoutArg, errVars,
                 seq, registry, spc, minted, armed, elapsed, wpc, wch,
                 removeCallback, result, cbs, since, renewVars>>

\* case resp := <-doneChan
WaiterReply(c) ==
  /\ wpc[c] = "select"
  /\ doneChan[c] # <<>>
  /\ CanSend(responseChan[c])
  /\ responseChan' = [responseChan EXCEPT ![c] = Append(@, Head(doneChan[c]))]
  /\ doneChan' = [doneChan EXCEPT ![c] = Tail(@)]
  /\ wpc' = [wpc EXCEPT ![c] = "done"]
  /\ UNCHANGED <<connVars, tellTimeout, envelope, setTo, timeoutArg, errVars,
                 seq, registry, spc, minted, armed, elapsed, wch,
                 removeCallback, result, cbs, since, renewVars>>

\* case <-r.disconnect
WaiterDisconnect(c) ==
  /\ wpc[c] = "select"
  /\ Closed(wch[c])
  /\ CanSend(responseChan[c])
  /\ responseChan' = [responseChan EXCEPT
                        ![c] = Append(@, Response(NoResult, "disconnect"))]
  /\ wpc' = [wpc EXCEPT ![c] = "done"]
  /\ UNCHANGED <<connVars, tellTimeout, envelope, setTo, timeoutArg, errVars,
                 seq, registry, spc, minted, armed, elapsed, wch, doneChan,
                 removeCallback, result, cbs, since, renewVars>>

\* WaiterTimeout with the identifier awaited before the timeout is delivered.
WaiterTimeout_afterIdentifier(c) ==
  /\ wpc[c] = "select"
  /\ elapsed[c]
  /\ removeCallback[c].buf # <<>>
  /\ CanSend(responseChan[c])
  /\ responseChan' = [responseChan EXCEPT
                        ![c] = Append(@, Response(NoResult, "timeout"))]
  /\ wpc' = [wpc EXCEPT ![c] = "remove"]
  /\ UNCHANGED <<connVars, tellTimeout, envelope, setTo, timeoutArg, errVars,
                 seq, registry, spc, minted, armed, elapsed, wch, doneChan,
                 removeCallback, result, cbs, since, renewVars>>

\* case <-time.After(timeout), up to the receive from removeCallback
WaiterTimeout(c) ==
  /\ wpc[c] = "select"
  /\ elapsed[c]
  /\ CanSend(responseChan[c])
  /\ responseChan' = [responseChan EXCEPT
                        ![c] = Append(@, Response(NoResult, "timeout"))]
  /\ wpc' = [wpc EXCEPT ![c] = "remove"]
  /\ UNCHANGED <<connVars, tellTimeout, envelope, setTo, timeoutArg, errVars,
                 seq, registry, spc, minted, armed, elapsed, wch, doneChan,
                 removeCallback, result, cbs, since, renewVars>>

\* `if id, ok := <-removeCallback; ok { r.client.RemoveCallback(id) }`:
\* the registry after the receive.
RemoveReceived(rc) ==
  IF rc.buf # <<>> THEN registry \ {Head(rc.buf)} ELSE registry

\* The channel after the receive.
AfterRecv(rc) == IF rc.buf # <<>> THEN [rc EXCEPT !.buf = Tail(@)] ELSE rc

\* WaiterRemove without the receive and the RemoveCallback.
WaiterRemove_skipped(c) ==
  /\ wpc[c] = "remove"
  /\ wpc' = [wpc EXCEPT ![c] = "done"]
  /\ UNCHANGED <<connVars, tellTimeout, envelope, setTo, timeoutArg, errVars,
                 seq, registry, spc, minted, armed, elapsed, wch, doneChan,
                 removeCallback, responseChan, result, cbs, since, renewVars>>

\* timeout case, the removal of the callback
WaiterRemove(c) ==
  /\ wpc[c] = "remove"
  /\ CanRecv(removeCallback[c])
  /\ registry' = RemoveReceived(removeCallback[c])
  /\ removeCallback' = [removeCallback EXCEPT ![c] = AfterRecv(@)]
  /\ wpc' = [wpc EXCEPT ![c] = "done"]
  /\ UNCHANGED <<connVars, tellTimeout, envelope, setTo, timeoutArg, errVars,
                 seq, spc, minted, armed, elapsed, wch, doneChan, responseChan,
                 result, cbs, since, renewVars>>

\* TellWithTimeout: `response := <-r.GoWithTimeout(...)`; a caller of Go
\* receives from the returned channel in the same way.
TellReturn(c) ==
  /\ responseChan[c] # <<>>
  /\ result' = [result EXCEPT ![c] = Append(@, Head(responseChan[c]))]
  /\ responseChan' = [responseChan EXCEPT ![c] = Tail(@)]
  /\ UNCHANGED <<connVars, tellTimeout, envelope, setTo, timeoutArg, errVars,
                 seq, registry, spc, minted, armed, elapsed, wpc, wch,
                 doneChan, removeCallback, cbs, since, renewVars>>

\* ---------------------------------------------------- response continuation
\* The response the callback hands to doneChan for a request: its deferred
\* function applied to what the body decoded.  id is the identifier the peer
\* invoked; the result value is the one the peer sent to that identifier.
makeResponseCallback(req, id) ==
  IF req.nargs # 1 THEN Response(NoResult, "invalidResponse")
  ELSE IF ~req.json THEN Response(NoResult, "invalidResponse")
  ELSE IF "result" \notin req.keys /\ "error" \notin req.keys
    THEN Response(NoResult, "invalidResponse")
  ELSE Response(IF "result" \in req.keys THEN <<"result", id>> ELSE NoResult,
                IF "error" \in req.keys THEN "remoteError" ELSE Nil)

\* The call whose response continuation has identifier id.
Owner(id) == CHOOSE c \in Calls : minted[c] # {} /\ id = Max(minted[c])

IsResponseID(id) == \E c \in Calls : minted[c] # {} /\ id = Max(minted[c])

\* The peer invokes a registered response continuation; the transport runs
\* the callback in a goroutine of its own.
InvokeCallback(id, req, limit) ==
  /\ connected
  /\ id \in registry
  /\ IsResponseID(id)
  /\ Len(cbs[Owner(id)]) < limit
  /\ cbs' = [cbs EXCEPT ![Owner(id)] =
               Append(@, [pc |-> "recv", req |-> req, id |-> id,
                          late |-> Delivered(Owner(id)) # <<>>])]
  /\ UNCHANGED <<connVars, tellTimeout, envelope, setTo, timeoutArg, errVars,
                 seq, registry, spc, minted, armed, elapsed, wpc, wch,
                 doneChan, removeCallback, responseChan, result, since,
                 renewVars>>

\* Callback body: receive from removeCallback, remove the identifier, decode.
CallbackRecv(c, k) ==
  /\ k \in DOMAIN cbs[c]
  /\ cbs[c][k].pc = "recv"
  /\ CanRecv(removeCallback[c])
  /\ registry' = RemoveReceived(removeCallback[c])
  /\ removeCallback' = [removeCallback EXCEPT ![c] = AfterRecv(@)]
  /\ cbs' = [cbs EXCEPT ![c][k].pc = "send"]
  /\ UNCHANGED <<connVars, tellTimeout, envelope, setTo, timeoutArg, errVars,
                 seq, spc, minted, armed, elapsed, wpc, wch, doneChan,
                 responseChan, result, since, renewVars>>

\* CallbackDone with one doneChan shared by every call of the RemoteKite
\* instead of the one send made for this call.
CallbackDone_sharedChannel(c, k) ==
  /\ k \in DOMAIN cbs[c]
  /\ cbs[c][k].pc = "send"
  /\ CanSend(doneChan[1])
  /\ doneChan' = [doneChan EXCEPT
                    ![1] = Append(@, makeResponseCallback(cbs[c][k].req,
                                                          cbs[c][k].id))]
  /\ cbs' = [cbs EXCEPT ![c][k].pc = "done"]
  /\ UNCHANGED <<connVars, tellTimeout, envelope, setTo, timeoutArg, errVars,
                 seq, registry, spc, minted, armed, elapsed, wpc, wch,
                 removeCallback, responseChan, result, since, renewVars>>

\* Callback's deferred function: doneChan <- &response{...}.
CallbackDone(c, k) ==
  /\ k \in DOMAIN cbs[c]
  /\ cbs[c][k].pc = "send"
  /\ CanSend(doneChan[c])
  /\ doneChan' = [doneChan EXCEPT
                    ![c] = Append(@, makeResponseCallback(cbs[c][k].req,
                                                          cbs[c][k].id))]
  /\ cbs' = [cbs EXCEPT ![c][k].pc = "done"]
  /\ UNCHANGED <<connVars, tellTimeout, envelope, setTo, timeoutArg, errVars,
                 seq, registry, spc, minted, armed, elapsed, wpc, wch,
                 removeCallback, responseChan, result, since, renewVars>>

\* ------------------------------------------------------ call specification
InitCall ==
  /\ InitCommon
  /\ auth = [Type |-> "kodingKey", Key |-> "k0", validUntil |-> NoExpiry]

\* The connection's events.
Conn == Connect \/ DisconnectClose \/ DisconnectReplace

\* The application dispatches a call of C with a timeout of T; the transport
\* accepts it or not, and mints a number of identifiers in N.
Dispatch(C, T, N) ==
  \E c \in C, t \in T, e \in BOOLEAN, n \in N : GoWithTimeout(c, t, e, n)

\* The steps of the goroutines of the dispatched calls and of their callers.
CallTasks ==
  \E c \in Calls :
    \/ SendCallbackID(c)
    \/ WaiterEnter(c)
    \/ TimeoutElapse(c)
    \/ WaiterReply(c)
    \/ WaiterDisconnect(c)
    \/ WaiterTimeout(c)
    \/ WaiterRemove(c)
    \/ TellReturn(c)
    \/ \E k \in 1..Len(cbs[c]) : CallbackRecv(c, k) \/ CallbackDone(c, k)

\* The peer replies with a payload of P, at most limit times per call.
Peer(P, limit) ==
  \E id \in registry, req \in P : InvokeCallback(id, req, limit)

\* One call, observed under every behaviour of the transport and the peer.
NextCall ==
  \/ Conn
  \/ Dispatch({1}, {0}, 0..MaxMinted)
  \/ CallTasks
  \/ Peer(Payloads, MaxInvocations)

SpecCall == InitCall /\ [][NextCall]_vars

\* MaxCalls calls on one RemoteKite, each replied to at most once.
NextCalls ==
  \/ Conn
  \/ Dispatch(Calls, {0}, {1})
  \/ CallTasks
  \/ Peer({[nargs |-> 1, json |-> TRUE, keys |-> {"result"}]}, 1)

SpecCalls == InitCall /\ [][NextCalls]_vars

\* The steps of the goroutines of the dispatched calls while the connection
\* stays up: no disconnect channel is ever closed.
ReplyTasks ==
  \E c \in Calls :
    \/ SendCallbackID(c)
    \/ WaiterEnter(c)
    \/ TimeoutElapse(c)
    \/ WaiterReply(c)
    \/ WaiterTimeout(c)
    \/ WaiterRemove(c)
    \/ TellReturn(c)
    \/ \E k \in 1..Len(cbs[c]) : CallbackRecv(c, k) \/ CallbackDone(c, k)

\* MaxCalls calls on a connection that stays up, replied to in any order.
NextOrder ==
  \/ Connect
  \/ Dispatch(Calls, {0}, {1})
  \/ ReplyTasks
  \/ Peer({[nargs |-> 1, json |-> TRUE, keys |-> {"result"}]}, 1)

SpecOrder == InitCall /\ [][NextOrder]_vars

\* One call whose response continuation the peer invokes once, with an
\* invalid reply.
NextInvalid ==
  \/ Conn
  \/ Dispatch({1}, {0}, {1})
  \/ CallTasks
  \/ Peer(InvalidPayloads, 1)

SpecInvalid == InitCall /\ [][NextInvalid]_vars

\* The goroutines of calls that get no reply and see no disconnect.
TimeoutTasks ==
  \E c \in Calls :
    \/ SendCallbackID(c)
    \/ WaiterEnter(c)
    \/ TimeoutElapse(c)
    \/ WaiterTimeout(c)
    \/ WaiterRemove(c)
    \/ TellReturn(c)

\* Calls dispatched with and without a timeout of their own, between calls
\* of SetTellTimeout.
NextTimeout ==
  \/ \E d \in TellTimeouts : SetTellTimeout(d)
  \/ Dispatch(Calls, Timeouts, {1})
  \/ TimeoutTasks

SpecTimeout == InitCall /\ [][NextTimeout]_vars

\* One call on a client that may have minted identifiers for earlier calls.
InitHandOff ==
  /\ seq \in Minted
  /\ Built(NewRemoteKite)
  /\ InitRemoteKite
  /\ auth = [Type |-> "kodingKey", Key |-> "k0", validUntil |-> NoExpiry]

NextHandOff ==
  \/ Connect
  \/ Dispatch({1}, {0}, 0..MaxMinted)
  \/ ReplyTasks
  \/ Peer({[nargs |-> 1, json |-> TRUE, keys |-> {"result"}]}, 1)

SpecHandOff == InitHandOff /\ [][NextHandOff]_vars

\* Fair scheduling of the goroutines of a call and of its caller, and the
\* passage of the time that makes an armed timer ready.  Nothing is assumed
\* of the application, the connection or the peer.
CallFairness ==
  \A c \in Calls :
    /\ WF_vars(SendCallbackID(c))
    /\ WF_vars(WaiterEnter(c))
    /\ WF_vars(TimeoutElapse(c))
    /\ WF_vars(WaiterReply(c) \/ WaiterDisconnect(c) \/ WaiterTimeout(c))
    /\ WF_vars(WaiterRemove(c))
    /\ WF_vars(TellReturn(c))
    /\ \A k \in 1..MaxInvocations :
         WF_vars(CallbackRecv(c, k)) /\ WF_vars(CallbackDone(c, k))

LiveSpecCall == SpecCall /\ CallFairness

\* ------------------------------------------------------------ token renewal
\* Token strings: <<"jwt", e>> is a token signed by a trusted issuer whose
\* exp claim is e, <<"bad">> one that jwt.Parse rejects.
Jwt(e)   == <<"jwt", e>>
BadToken == <<"bad">>

\* What Kontrol.GetToken may return at the current instant: an error, or a
\* token string.  Every token Kontrol signs carries a numeric exp claim (the
\* type assertion on token.Claims["exp"] is not modelled as failing).
GetTokenResults ==
  {[err |-> "getToken", token |-> BadToken], [err |-> Nil, token |-> BadToken]}
    \cup {[err |-> Nil, token |-> Jwt(now + l)] : l \in Lifetimes}

\* renewToken: the error it returns for what GetToken returned.
renewTokenErr(got) ==
  IF got.err # Nil THEN got.err
  ELSE IF got.token = BadToken THEN "Cannot parse token"
  ELSE Nil

\* renewToken with the key assigned as soon as GetToken returns, before the
\* token is parsed.
renewToken_keyBeforeParse(a, got) ==
  IF got.err # Nil THEN a
  ELSE IF got.token = BadToken THEN [a EXCEPT !.Key = got.token]
  ELSE [a EXCEPT !.Key = got.token, !.validUntil = got.token[2]]

\* renewToken: r.Authentication after the attempt.
renewToken(a, got) ==
  IF renewTokenErr(got) # Nil THEN a
  ELSE [a EXCEPT !.Key = got.token, !.validUntil = got.token[2]]

\* waitForRenewTime with the timer armed for the expiry itself.
waitForRenewTime_atExpiry(p, a) ==
  [p EXCEPT !.pc = "wait", !.ch = disconnect, !.wake = a.validUntil,
            !.fails = 0]

\* tokenRenewer, head of the loop: renewTime and the select that reads
\* r.disconnect and arms time.After(renewTime.Sub(now)).
waitForRenewTime(p, a) ==
  [p EXCEPT !.pc = "wait", !.ch = disconnect,
            !.wake = a.validUntil - RenewBefore, !.fails = 0]

\* renewTokenUntilDisconnect, head of the retry loop: the select that reads
\* r.disconnect and arms time.After(retryInterval).
waitForRetry(p) ==
  [p EXCEPT !.pc = "retry", !.ch = disconnect, !.wake = now + retryInterval,
            !.fails = @ + 1]

\* The goroutine started by the connect handler is scheduled.
RenewerStart(i) ==
  /\ renewers[i].pc = "start"
  /\ renewers' = [renewers EXCEPT ![i] = waitForRenewTime(@, auth)]
  /\ UNCHANGED <<connVars, tellTimeout, envelope, setTo, timeoutArg, errVars,
                 callVars, auth, now>>

\* tokenRenewer, `case <-time.After(...)`: renewTokenUntilDisconnect is
\* entered and its first renewToken begins.
RenewerWake(i) ==
  /\ renewers[i].pc = "wait"
  /\ now >= renewers[i].wake
  /\ renewers' = [renewers EXCEPT ![i].pc = "first"]
  /\ UNCHANGED <<connVars, tellTimeout, envelope, setTo, timeoutArg, errVars,
                 callVars, auth, now>>

\* renewTokenUntilDisconnect, `case <-time.After(retryInterval)`: the next
\* renewToken begins.
RenewerRetry(i) ==
  /\ renewers[i].pc = "retry"
  /\ now >= renewers[i].wake
  /\ renewers' = [renewers EXCEPT ![i].pc = "again"]
  /\ UNCHANGED <<connVars, tellTimeout, envelope, setTo, timeoutArg, errVars,
                 callVars, auth, now>>

\* `case <-r.disconnect` of either select: the loop returns.
RenewerDisconnect(i) ==
  /\ renewers[i].pc \in {"wait", "retry"}
  /\ Closed(renewers[i].ch)
  /\ renewers' = [renewers EXCEPT ![i].pc = "done"]
  /\ UNCHANGED <<connVars, tellTimeout, envelope, setTo, timeoutArg, errVars,
                 callVars, auth, now>>

\* RenewTokenReturn with a failed retry returning its error to tokenRenewer,
\* which then returns.
RenewTokenReturn_fatalRetry(i, got) ==
  /\ renewers[i].pc \in {"first", "again"}
  /\ auth' = renewToken(auth, got)
  /\ renewers' = [renewers EXCEPT ![i] =
                    IF renewTokenErr(got) = Nil
                      THEN waitForRenewTime(@, renewToken(auth, got))
                      ELSE IF @.pc = "again" THEN [@ EXCEPT !.pc = "done"]
                      ELSE waitForRetry(@)]
  /\ UNCHANGED <<connVars, tellTimeout, envelope, setTo, timeoutArg, errVars,
                 callVars, now>>

\* RenewTokenReturn with the envelopes holding a reference to
\* r.Authentication instead of a copy: a call already sent carries the
\* renewed credential.
RenewTokenReturn_sharedCredential(i, got) ==
  /\ renewers[i].pc \in {"first", "again"}
  /\ auth' = renewToken(auth, got)
  /\ renewers' = [renewers EXCEPT ![i] =
                    IF renewTokenErr(got) = Nil
                      THEN waitForRenewTime(@, renewToken(auth, got))
                      ELSE waitForRetry(@)]
  /\ envelope' = [c \in Calls |->
                    IF envelope[c] = <<>> THEN <<>>
                    ELSE <<[Type |-> auth'.Type, Key |-> auth'.Key]>>]
  /\ UNCHANGED <<connVars, tellTimeout, setTo, timeoutArg, errVars, callVars,
                 now>>

\* A renewToken in progress returns.  On success the loop goes back to
\* waiting for the renew time of the new expiry; on failure it waits for the
\* retry interval.
RenewTokenReturn(i, got) ==
  /\ renewers[i].pc \in {"first", "again"}
  /\ auth' = renewToken(auth, got)
  /\ renewers' = [renewers EXCEPT ![i] =
                    IF renewTokenErr(got) = Nil
                      THEN waitForRenewTime(@, renewToken(auth, got))
                      ELSE waitForRetry(@)]
  /\ UNCHANGED <<connVars, tellTimeout, envelope, setTo, timeoutArg, errVars,
                 callVars, now>>

\* A timer of a renewal loop is ready and its goroutine has not run yet.
TimerDue ==
  \E i \in DOMAIN renewers :
    renewers[i].pc \in {"wait", "retry"} /\ now >= renewers[i].wake

\* Time passes.
Tick ==
  /\ now + TickStep <= MaxTime
  /\ now' = now + TickStep
  /\ UNCHANGED <<connVars, tellTimeout, envelope, setTo, timeoutArg, errVars,
                 callVars, auth, renewers>>

\* Time passes under a runtime that runs a goroutine whose timer is ready
\* before the clock moves on.
TimelyTick == ~TimerDue /\ Tick

\* --------------------------------------------------- renewal specification
InitRenew ==
  /\ InitCommon
  /\ \E e \in Expiries : auth = [Type |-> "token", Key |-> Jwt(e), validUntil |-> e]

RenewerStep(i) ==
  \/ RenewerStart(i)
  \/ RenewerWake(i)
  \/ RenewerRetry(i)
  \/ RenewerDisconnect(i)
  \/ \E got \in GetTokenResults : RenewTokenReturn(i, got)

\* A RemoteKite with an expiring credential on which no call is made.
NextRenew ==
  \/ Conn
  \/ Tick
  \/ \E i \in DOMAIN renewers : RenewerStep(i)

SpecRenew == InitRenew /\ [][NextRenew]_vars

\* The same RemoteKite under a runtime that wakes timers on time.
NextRenewTimely ==
  \/ Conn
  \/ TimelyTick
  \/ \E i \in DOMAIN renewers : RenewerStep(i)

TimelySpecRenew == InitRenew /\ [][NextRenewTimely]_vars

\* A RemoteKite of either constructor, with an expiring credential, on which
\* one call is made while the session of its client comes and goes.
InitClients ==
  /\ seq = 0
  /\ Built(NewRemoteKite) \/ Built(newRemoteKiteWithClient)
  /\ InitRemoteKite
  /\ \E e \in Expiries : auth = [Type |-> "token", Key |-> Jwt(e), validUntil |-> e]

NextClients ==
  \/ Conn
  \/ SessionUp
  \/ SessionDown
  \/ Dispatch({1}, {0}, {1})
  \/ CallTasks
  \/ Peer({[nargs |-> 1, json |-> TRUE, keys |-> {"result"}]}, 1)

SpecClients == InitClients /\ [][NextClients]_vars

\* The renewal loop of a connection that stays up.
RenewalTasks ==
  \E i \in DOMAIN renewers :
    \/ RenewerStart(i)
    \/ RenewerWake(i)
    \/ RenewerRetry(i)
    \/ \E got \in GetTokenResults : RenewTokenReturn(i, got)

\* The goroutines of calls that are replied to before their timeout.
AnsweredTasks ==
  \E c \in Calls :
    \/ SendCallbackID(c)
    \/ WaiterEnter(c)
    \/ WaiterReply(c)
    \/ TellReturn(c)
    \/ \E k \in 1..Len(cbs[c]) : CallbackRecv(c, k) \/ CallbackDone(c, k)

\* Two calls made at any time on a connected RemoteKite whose credential is
\* being renewed.
NextFrame ==
  \/ Connect
  \/ Dispatch({1, 2}, {0}, {1})
  \/ AnsweredTasks
  \/ Peer({[nargs |-> 1, json |-> TRUE, keys |-> {"result"}]}, 1)
  \/ Tick
  \/ RenewalTasks

SpecFrame == InitRenew /\ [][NextFrame]_vars

\* ------------------------------------------------------- inbound errors
\* callbackArg{Result: nil, Error: errorForSending(&Error{"methodNotFound", ...})}
MethodNotFound == [Result |-> NoResult, Error |-> "methodNotFound"]

\* onError replying to the continuation carried by the last argument.
onError_lastArgument(e) ==
  IF e.type # "MethodNotFoundError" THEN <<>>
  ELSE IF Len(e.args) = 0 THEN <<>>
  ELSE IF ~e.args[Len(e.args)].decodes THEN <<>>
  ELSE IF e.args[Len(e.args)].responseCallback # NoCallback
    THEN <<[cb |-> e.args[Len(e.args)].responseCallback, arg |-> MethodNotFound]>>
  ELSE <<>>

\* onError: the invocations of continuations it makes for an error.
onError(e) ==
  IF e.type # "MethodNotFoundError" THEN <<>>
  ELSE IF Len(e.args) = 0 THEN <<>>
  ELSE IF ~e.args[1].decodes THEN <<>>
  ELSE IF e.args[1].responseCallback # NoCallback
    THEN <<[cb |-> e.args[1].responseCallback, arg |-> MethodNotFound]>>
  ELSE <<>>

\* The transport fails to dispatch an inbound invocation and calls the error
\* handler NewClientWithHandlers installed.
ErrorArrives(e) ==
  /\ inbound = NoError
  /\ handled < MaxErrors
  /\ inbound' = e
  /\ UNCHANGED <<connVars, tellTimeout, envelope, setTo, timeoutArg, handled,
                 invoked, callVars, renewVars>>

\* onError runs to its return.
OnError ==
  /\ inbound # NoError
  /\ invoked' = invoked \o onError(inbound)
  /\ handled' = handled + 1
  /\ inbound' = NoError
  /\ UNCHANGED <<connVars, tellTimeout, envelope, setTo, timeoutArg, callVars,
                 renewVars>>

NextError ==
  \/ \E e \in InboundErrors : ErrorArrives(e)
  \/ OnError

SpecError == InitCall /\ [][NextError]_vars

\* ------------------------------------------------------ the whole program
Init == InitCall \/ InitRenew \/ InitHandOff \/ InitClients

Next ==
  \/ Conn
  \/ Dispatch(Calls, Timeouts, 0..MaxMinted)
  \/ CallTasks
  \/ Peer(Payloads, MaxInvocations)
  \/ Tick
  \/ \E i \in DOMAIN renewers : RenewerStep(i)
  \/ NextError
  \/ \E d \in TellTimeouts : SetTellTimeout(d)
  \/ SessionUp
  \/ SessionDown

Spec == Init /\ [][Next]_vars

\* Fair scheduling of the goroutine of each renewal loop; a renewToken in
\* progress eventually returns.
RenewFairness ==
  \A i \in 1..MaxRenewers :
    /\ WF_vars(i \in DOMAIN renewers /\ RenewerStart(i))
    /\ WF_vars(i \in DOMAIN renewers /\ (RenewerWake(i) \/ RenewerDisconnect(i)))
    /\ WF_vars(i \in DOMAIN renewers /\ (RenewerRetry(i) \/ RenewerDisconnect(i)))
    /\ WF_vars(i \in DOMAIN renewers
                 /\ \E got \in GetTokenResults : RenewTokenReturn(i, got))

LiveSpecRenew == SpecRenew /\ RenewFairness

\* ----------------------------------------------------------------- claims
SendError  == Response(NoResult, "sendError")
Disconnect == Response(NoResult, "disconnect")
Timeout    == Response(NoResult, "timeout")

\* The identifier of c's response continuation: the maximum of those minted
\* for the call; 0, which is no identifier, when none was minted.
ResponseID(c) == IF minted[c] = {} THEN 0 ELSE Max(minted[c])

\* The responses the invocations of c's continuation have handed to doneChan.
Replies(c) ==
  { makeResponseCallback(cbs[c][k].req, cbs[c][k].id) :
      k \in {j \in DOMAIN cbs[c] : cbs[c][j].pc = "done"} }

\* C1: at most one response is ever delivered on a call's response channel;
\* it is the reply handed over by the continuation, sendError, disconnect or
\* timeout; once delivered it is never replaced or followed by another.
C1_ExactlyOnce ==
  /\ [](\A c \in Calls :
          /\ Len(Delivered(c)) <= 1
          /\ \A i \in DOMAIN Delivered(c) :
               Delivered(c)[i] \in {SendError, Disconnect, Timeout} \cup Replies(c))
  /\ [][\A c \in Calls : Delivered(c) # <<>> => Delivered(c)' = Delivered(c)]_vars

\* A reply was delivered although the timeout had elapsed and the connection
\* had dropped, and the peer invoked the continuation twice.
C1_Witness ==
  \E c \in Calls :
    /\ result[c] # <<>> /\ result[c][1].Err = Nil
    /\ elapsed[c] /\ Closed(wch[c])
    /\ Len(cbs[c]) = 2

\* C2: every dispatched call eventually delivers an outcome and its caller
\* eventually receives it; a failed transport send has delivered it when send
\* returns; an elapsed timeout is followed by a delivered outcome.
C2_EventuallyResolved ==
  \A c \in Calls :
    /\ [](spc[c] = "returned" /\ wpc[c] = "none" => Delivered(c) # <<>>)
    /\ (spc[c] # "idle") ~> (result[c] # <<>>)
    /\ elapsed[c] ~> (Delivered(c) # <<>>)

\* The peer never replied and the caller received the timeout.
C2_Witness ==
  \E c \in Calls : result[c] = <<Timeout>> /\ cbs[c] = <<>> /\ ~Closed(wch[c])

\* C3: a call that is outstanding (sent, unresolved, no reply) when the
\* disconnect handler runs is resolved by that disconnect: once its waiting
\* task waits, it waits on a disconnect channel that is closed.
C3_DisconnectResolvesOutstanding ==
  \A c \in Calls :
    (since[c] = "hit" /\ cbs[c] = <<>> /\ wpc[c] = "select") => Closed(wch[c])

\* C5: after a timeout the identifier handed off for the call is eventually
\* absent from the registry, and no later step changes what was delivered.
C5_NoLeakOnTimeout ==
  /\ \A c \in Calls :
       (Delivered(c) = <<Timeout>>) ~> (ResponseID(c) \notin registry)
  /\ [][\A c \in Calls :
          Delivered(c) = <<Timeout>> => Delivered(c)' = <<Timeout>>]_vars

\* A call timed out, the peer replied after that, and the entry is gone.
C5_Witness ==
  \E c \in Calls :
    /\ result[c] = <<Timeout>>
    /\ minted[c] # {} /\ ResponseID(c) \notin registry
    /\ \E k \in DOMAIN cbs[c] : cbs[c][k].late

\* C6: the identifier registered for the response continuation of a
\* dispatched call is eventually removed from the registry, whichever way the
\* call is resolved.
C6_EveryIdentifierRemoved ==
  \A c \in Calls :
    (ResponseID(c) \in registry) ~> (ResponseID(c) \notin registry)

\* C10: a call dispatched while no disconnect handler was running is resolved
\* with disconnect only if a disconnect handler started after the dispatch.
C10_NoStaleDisconnect ==
  \A c \in Calls :
    (\E i \in DOMAIN Delivered(c) : Delivered(c)[i] = Disconnect)
      => since[c] # "fresh"

\* A call dispatched after a disconnect handler had replaced the channel was
\* resolved, with no disconnect after its dispatch.
C10_Witness ==
  \E c \in Calls :
    /\ since[c] = "fresh" /\ disconnect >= 1
    /\ wpc[c] = "done" /\ Delivered(c) # <<>>

\* Position of renewal loop i; "none" while it has not been started.
LoopPc(i) == IF i \in DOMAIN renewers THEN renewers[i].pc ELSE "none"

\* Loop i calls renewToken in this step.
AttemptBegins(i) ==
  /\ renewers[i].pc \in {"wait", "retry"}
  /\ renewers'[i].pc \in {"first", "again"}

\* C4: once the disconnect handler of the epoch in which a renewal loop was
\* started has run, that loop calls renewToken no more.
C4_NoRenewalAfterDisconnect ==
  [][\A i \in DOMAIN renewers :
       renewers[i].epoch < disconnect => ~AttemptBegins(i)]_vars

\* C7: at most one renewal loop is alive at any time.
C7_AtMostOneLoop ==
  Cardinality({i \in DOMAIN renewers : renewers[i].pc # "done"}) <= 1

\* C8: a renewToken that returns never terminates the loop; a failed one
\* leaves the credential alone and arms the retry interval; the retrying
\* state is left only for the next attempt, once the interval has elapsed, or
\* for termination on a closed disconnect channel; a successful attempt
\* schedules the next renewal from the new expiry; and a loop whose retry
\* interval has elapsed attempts again or terminates.
C8_FailureNeverFatal ==
  /\ [][\A i \in DOMAIN renewers :
          LET p == renewers[i] q == renewers'[i] IN
            /\ p.pc \in {"first", "again"} => q.pc \in {p.pc, "wait", "retry"}
            /\ (p.pc \in {"first", "again"} /\ q.pc = "retry")
                 => (auth' = auth /\ q.wake = now + retryInterval)
            /\ (p.pc \in {"first", "again"} /\ q.pc = "wait")
                 => (auth'.validUntil = q.wake + RenewBefore /\ q.fails = 0)
            /\ p.pc = "retry" => q.pc \in {"retry", "again", "done"}
            /\ (p.pc = "retry" /\ q.pc = "again") => now >= p.wake
            /\ (p.pc = "retry" /\ q.pc = "done") => Closed(p.ch)]_vars
  /\ \A i \in 1..MaxRenewers :
       (LoopPc(i) = "retry" /\ now >= renewers[i].wake)
         ~> (LoopPc(i) \in {"again", "done"})

\* A loop is waiting to retry after two failed attempts in a row.
C8_Witness ==
  \E i \in DOMAIN renewers :
    renewers[i].pc = "retry" /\ renewers[i].fails >= 2 /\ ~Closed(renewers[i].ch)

\* C9: while no disconnect has occurred, the loop calls renewToken no
\* earlier than 30 seconds before the credential's expiry, and, timers being
\* woken on time, a loop that waits when that instant is reached or past
\* attempts before the clock moves on.
C9_RenewBeforeExpiry ==
  [][\A i \in DOMAIN renewers :
       Closes = 0 =>
         /\ AttemptBegins(i) => now >= auth.validUntil - RenewBefore
         /\ (renewers[i].pc = "wait" /\ now >= auth.validUntil - RenewBefore)
              => now' = now]_vars

\* With no disconnect so far, a renewed credential is being renewed again
\* exactly 30 seconds before its expiry.
C9_Witness ==
  /\ Closes = 0
  /\ auth.validUntil \notin Expiries
  /\ \E i \in DOMAIN renewers :
       renewers[i].pc = "first" /\ now = auth.validUntil - RenewBefore

\* ------------------------------------------------ claims C11 to C20
\* The replies among a sequence of responses: those that carry a result.
Carried(rs) == {rs[i].Result : i \in DOMAIN rs} \ {NoResult}

\* C11: replies are attributed to the call whose continuation the peer
\* invoked, whatever the order of arrival: every reply a call's doneChan or
\* response channel has ever held is the one sent to that call's own response
\* identifier, and a reply waiting in a call's doneChan can be forwarded to
\* its response channel whatever the state of the other calls.
C11_ReorderAttribution ==
  \A c \in Calls :
    /\ Carried(doneChan[c] \o Delivered(c)) \subseteq {<<"result", ResponseID(c)>>}
    /\ Carried(doneChan[c] \o Delivered(c)) # {} =>
         \E k \in DOMAIN cbs[c] : cbs[c][k].pc = "done"
    /\ wpc[c] = "select" /\ doneChan[c] # <<>> => ENABLED WaiterReply(c)

\* Call 2 has received its own reply while call 1, dispatched before it, has
\* no response yet and its continuation has not been invoked.
C11_Witness ==
  /\ result[2] = <<Response(<<"result", ResponseID(2)>>, Nil)>>
  /\ spc[1] = "returned" /\ minted[1] # {}
  /\ Delivered(1) = <<>>
  /\ cbs[1] = <<>>
  /\ ResponseID(1) < ResponseID(2)

\* A call whose client.Call returned an error: the only source of sendError.
SendFailed(c) == \E i \in DOMAIN Delivered(c) : Delivered(c)[i] = SendError

\* C12: when client.Call returns an error, send has delivered sendError by
\* the time it returns, no waiting goroutine exists for the call, no timeout
\* is armed or elapses, no identifier is minted, handed off or removed, and
\* sendError stays the only response the call ever gets.
C12_SendErrorOnly ==
  \A c \in Calls :
    SendFailed(c) =>
      /\ Delivered(c) = <<SendError>>
      /\ spc[c] = "returned"
      /\ wpc[c] = "none"
      /\ armed[c] = 0 /\ ~elapsed[c]
      /\ minted[c] = {}
      /\ removeCallback[c] = [buf |-> <<>>, closed |-> FALSE]
      /\ doneChan[c] = <<>> /\ cbs[c] = <<>>

\* The caller has received sendError, and the connection has since come up
\* and dropped again without anything else reaching the call.
C12_Witness ==
  /\ result[1] = <<SendError>>
  /\ disconnect > 0 /\ connected

InvalidResponse == Response(NoResult, "invalidResponse")

\* A reply that is not exactly one decodable argument holding a result or an
\* error key.
Invalid(req) ==
  req.nargs # 1 \/ ~req.json \/ req.keys \cap {"result", "error"} = {}

\* Invocation k of call c's continuation waits for an identifier on
\* removeCallback that nothing will ever send: send has returned, the slot is
\* empty and the channel is open.
Stuck(c, k) ==
  /\ k \in DOMAIN cbs[c]
  /\ cbs[c][k].pc = "recv"
  /\ spc[c] = "returned"
  /\ ~CanRecv(removeCallback[c])

\* C13: when the response continuation is invoked (once) with an invalid
\* reply, the response it hands to the dispatcher is invalidResponse, the call
\* gets invalidResponse unless timeout or disconnect came first, and the
\* continuation is never left unable to hand its response over.
C13_InvalidReplyResolves ==
  \A c \in Calls :
    Len(cbs[c]) = 1 /\ Invalid(cbs[c][1].req) =>
      /\ cbs[c][1].pc = "done" =>
           doneChan[c] \o Delivered(c) \in
             {<<InvalidResponse>>, <<InvalidResponse, Timeout>>,
              <<InvalidResponse, Disconnect>>}
      /\ Delivered(c) \in {<<>>, <<InvalidResponse>>, <<Timeout>>, <<Disconnect>>}
      /\ ~Stuck(c, 1)

\* The inbound invocation names its response continuation where onError
\* looks for it: a first argument that decodes and carries one.
Answerable(e) ==
  /\ e.type = "MethodNotFoundError"
  /\ Len(e.args) > 0
  /\ e.args[1].decodes
  /\ e.args[1].responseCallback # NoCallback

\* C14: for a method-not-found error whose first argument decodes and
\* carries a response continuation, onError invokes that continuation exactly
\* once with no result and an error of type methodNotFound; with no
\* arguments, an undecodable first argument or no continuation it invokes
\* nothing.
C14_MethodNotFoundReply ==
  [][inbound # NoError /\ inbound' = NoError =>
       IF Answerable(inbound)
         THEN invoked' = Append(invoked,
                [cb |-> inbound.args[1].responseCallback,
                 arg |-> [Result |-> NoResult, Error |-> "methodNotFound"]])
         ELSE invoked' = invoked]_vars

\* onError has answered one unknown method on continuation 1 and has left
\* another error unanswered.
C14_Witness ==
  /\ handled >= 2
  /\ inbound = NoError
  /\ Len(invoked) = 1
  /\ invoked[1].cb = 1

\* The tell timeout of the RemoteKite: the default until SetTellTimeout is
\* called, then the last value given to it.
Configured ==
  IF setTo = <<>> THEN DefaultTellTimeout ELSE setTo[Len(setTo)]

\* C15: a call dispatched with timeout 0 is armed with the tell timeout as
\* it is when send runs (DefaultTellTimeout, or the last value given to
\* SetTellTimeout), a call dispatched with another timeout is armed with that
\* timeout, and what a call is armed with never changes afterwards.
C15_ArmedTimeout ==
  [][\A c \in Calls :
       /\ spc[c] = "idle" /\ spc'[c] = "sending" =>
            armed'[c] = IF timeoutArg'[c] = 0 THEN Configured ELSE timeoutArg'[c]
       /\ spc[c] = "sending" \/ wpc[c] # "none" => armed'[c] = armed[c]]_vars

\* Call 1, dispatched with timeout 0 before any SetTellTimeout, is armed
\* with the default; call 2, dispatched with timeout 0 after SetTellTimeout,
\* is armed with the value set, and has timed out; the tell timeout has
\* been set again since.
C15_Witness ==
  /\ Len(setTo) = 2 /\ tellTimeout # armed[2]
  /\ timeoutArg[1] = 0 /\ armed[1] = DefaultTellTimeout
  /\ timeoutArg[2] = 0 /\ armed[2] = setTo[1] /\ armed[2] # DefaultTellTimeout
  /\ result[2] = <<Timeout>>

\* The waiting goroutine of call c, on its timeout path, waits for an
\* identifier on removeCallback that nothing will ever send.
WaiterStuck(c) ==
  /\ wpc[c] = "remove"
  /\ spc[c] = "returned"
  /\ ~CanRecv(removeCallback[c])

\* C16: with one reply racing the timeout, neither reader of removeCallback
\* is left blocked on it: the waiting goroutine on its timeout path and the
\* response continuation both get past their receive.
C16_HandOffNeverBlocks ==
  \A c \in Calls :
    Len(cbs[c]) <= 1 => ~WaiterStuck(c) /\ ~Stuck(c, 1)

\* A renewToken of some loop returns in this step.
AttemptReturns ==
  \E i \in DOMAIN renewers :
    renewers[i].pc \in {"first", "again"} /\ renewers'[i].pc \notin {"first", "again"}

\* C17: the credential in a call's envelope is the copy of r.Authentication
\* taken when the envelope is built and never changes afterwards; a renewal
\* attempt, successful or not, changes no envelope, no pending call's state
\* or outcome and no registry entry.
C17_RenewalFrame ==
  [][/\ \A c \in Calls :
          /\ envelope[c] = <<>> /\ envelope'[c] # <<>> =>
               envelope'[c] = <<[Type |-> auth.Type, Key |-> auth.Key]>>
          /\ envelope[c] # <<>> => envelope'[c] = envelope[c]
     /\ AttemptReturns => UNCHANGED <<envelope, callVars, connVars>>]_vars

\* Call 1 was sent before a successful renewal and is still pending with its
\* registry entry; its envelope carries the old key, the envelope of call 2,
\* built after the renewal, carries the new one.
C17_Witness ==
  /\ envelope[1] # <<>> /\ envelope[2] # <<>>
  /\ envelope[1][1].Key # auth.Key
  /\ envelope[2][1].Key = auth.Key
  /\ Delivered(1) = <<>> /\ ResponseID(1) \in registry

\* C18: a successfully sent call hands off one identifier, the numeric
\* maximum of those its send minted, and only once; a send that minted none
\* closes removeCallback instead and nothing is put in it; whenever an entry
\* leaves the registry it is that maximum, and a reader that finds the
\* channel closed removes nothing.
C18_HandOffMaximum ==
  [][\A c \in Calls :
       /\ removeCallback'[c] # removeCallback[c] /\ spc'[c] # spc[c] =>
            removeCallback'[c] =
              IF minted[c] # {}
                THEN [buf |-> <<Max(minted[c])>>, closed |-> FALSE]
                ELSE [buf |-> <<>>, closed |-> TRUE]
       /\ removeCallback'[c] # removeCallback[c] /\ spc'[c] = spc[c] =>
            /\ removeCallback[c].buf = <<Max(minted[c])>>
            /\ removeCallback'[c] = [buf |-> <<>>, closed |-> FALSE]
            /\ registry' = registry \ {Max(minted[c])}
       /\ removeCallback[c].closed => registry' = registry
       /\ registry' # registry /\ spc[c] = "returned" =>
            registry \ registry' = {Max(minted[c])}]_vars

\* The send minted 9 and 10; 10 was handed off and has been removed from
\* the registry, 9 has not.
C18_Witness ==
  /\ minted[1] = {9, 10}
  /\ spc[1] = "returned"
  /\ removeCallback[1] = [buf |-> <<>>, closed |-> FALSE]
  /\ registry = {9}

\* What the handlers of NewRemoteKite establish for a RemoteKite r on the
\* events of its client: while the session is up and the credential has an
\* expiry a renewal loop has been started, and once the session has dropped
\* after a call was dispatched a disconnect channel has been closed.
HandlersRan ==
  /\ connected /\ auth.validUntil # NoExpiry => renewers # <<>>
  /\ \A c \in Calls : since[c] = "hit" => Closes > 0

\* C19: a RemoteKite built by newRemoteKiteWithClient sees the connects and
\* disconnects of the client it was given as one built by NewRemoteKite sees
\* those of its own: the renewal loop is started and the disconnect signal
\* is closed.
C19_GivenClientHandlers ==
  client = newRemoteKiteWithClient.client => HandlersRan

\* C20: a renewToken that fails (the loop goes on to wait for its retry)
\* leaves r.Authentication as it was; one that succeeds sets Key to a token
\* and validUntil to the expiry that same token carries; nothing else changes
\* r.Authentication, and its Type never changes.
C20_CredentialOnRenewal ==
  [][/\ \A i \in DOMAIN renewers :
          LET p == renewers[i] q == renewers'[i] IN
            p.pc \in {"first", "again"} /\ q.pc # p.pc =>
              IF q.pc = "retry"
                THEN auth' = auth
                ELSE /\ auth'.Key \in {Jwt(now + l) : l \in Lifetimes}
                     /\ auth'.Key = Jwt(auth'.validUntil)
     /\ auth'.Type = auth.Type
     /\ auth' # auth => AttemptReturns]_vars

\* An attempt has failed after an earlier one succeeded: the loop waits for
\* its retry and the credential is the renewed one.
C20_Witness ==
  \E i \in DOMAIN renewers :
    /\ renewers[i].pc = "retry"
    /\ auth.validUntil \notin Expiries
    /\ auth = [Type |-> "token", Key |-> Jwt(auth.validUntil),
               validUntil |-> auth.validUntil]

====
